---- MODULE Spec2Model ----
(***************************************************************************)
(* THE UNREAD ARCHIVE: the express server (server.js), its mongoose        *)
(* models, and the browser-side ArchiveManager (bundle.js / json.js).      *)
(*                                                                         *)
(* Node runs one handler at a time, and a handler gives up control at each *)
(* await.  A request therefore is a small process: its position is the     *)
(* await it is suspended at, and one action is the database operation      *)
(* awaited together with the code that runs when it resolves, up to the    *)
(* next await or the response.                                             *)
(***************************************************************************)
EXTENDS Integers, Sequences, FiniteSets, TLC

VARIABLES
    users,       \* the User collection, in insertion (natural) order
    store,       \* express-session's MemoryStore: token -> session user
    books,       \* the Book collection, in insertion order
    articles,    \* the Article collection, in insertion order
    nextBook,    \* how many ObjectIds the Book collection has handed out, plus one
    slot,        \* the requests in flight, one per slot
    now,         \* Date.now(), in ticks
    sequential,  \* TRUE: the clients send a request only when none is in flight
    stripsUndefined, \* TRUE: the installed mongoose drops undefined paths from
                     \* an update; FALSE: it sends them as null
    items,           \* ArchiveManager.articles: the items of the archive page
    input,           \* the value of the page's #searchInput
    query,           \* ArchiveManager.query
    activeCategory,  \* ArchiveManager.activeCategory
    feed,            \* what the page's .feed shows
    storage,         \* localStorage: the ids i whose key subscribed_<i> is set
    grid,            \* what the articles page's .right-grid shows
    listeners,       \* the click listeners added to .right-grid
    currentUser,     \* localStorage: what the key currentUser holds
    suggestions,     \* localStorage: the list under unread_book_suggestions_v1
    reviews,         \* localStorage: the list under unread_book_reviews_<id>,
                     \* for each book id
    shelf,           \* what the books page's #booksContainer shows
    shelfListeners,  \* the click listeners added to #booksContainer
    notice           \* what the last click on the books page did besides
                     \* storing: nothing, an alert, or leaving for signin.html

\* What no request changes: the clients' discipline and the installed mongoose.
env == <<sequential, stripsUndefined>>
\* The books page in the browser.
booksPage ==
    <<currentUser, suggestions, reviews, shelf, shelfListeners, notice>>
\* The archive page in the browser.
browser ==
    <<items, input, query, activeCategory, feed, storage, grid, listeners,
      booksPage>>
server == <<users, store, books, articles, nextBook, slot, now, env>>
vars == <<users, store, books, articles, nextBook, slot, now, env, browser>>

(***************************************************************************)
(* Bounds of the model.                                                    *)
(***************************************************************************)
MaxUsers == 2
\* ObjectIds the Book collection hands out; articles stored; the readings
\* 0..MaxClock that Date.now() can give.
MaxBooks == 2
MaxArticles == 1
MaxClock == 1
\* Items on the archive page.
MaxItems == 2
\* Search inputs on the articles page, each of which renders the list again.
MaxRenders == 2
\* Entries a stored list of suggestions or reviews grows to.
MaxEntries == 2

\* Two requests can be in flight at once, both from the browser holding the
\* session cookie t1.
Slots == {1, 2}
Tokens == {"t1"}

(***************************************************************************)
(* Values of a request body.  A field a form did not send is undefined;    *)
(* an empty input is the empty string.  Both are falsy in JavaScript.      *)
(***************************************************************************)
Missing == "undefined"
GoodEmails == {"a@x", "b@x"}
GoodPasswords == {"pw1", "pw2"}
\* The <<email, password>> pairs the forms send: every well-formed pair, and
\* one pair for each way a field can be empty or absent.
Credentials ==
    (GoodEmails \X GoodPasswords)
        \cup {<<"", "pw1">>, <<Missing, "pw1">>, <<"a@x", "">>, <<"a@x", Missing>>}
Names == {"N"}
Salts == {"s1"}

\* !v for a body field.
Falsy(v) == v = "" \/ v = Missing

(***************************************************************************)
(* Records.                                                                *)
(***************************************************************************)
\* null: what findOne resolves to when nothing matches, and an unset local.
Null == [id |-> 0]
\* req.session.user of a session nobody signed in to; a token the store does
\* not hold loads as such a session.
NoUser == [id |-> 0]
Idle == [pc |-> "idle"]
NoResponse == [status |-> 0]

Redirect(path) == [status |-> 302, location |-> path]
Send(code, text) == [status |-> code, body |-> text]

(***************************************************************************)
(* bcryptjs.  hash(password, 10) draws a random salt and digests the       *)
(* password with it; compare(password, hash) digests the candidate with    *)
(* the salt stored in the hash and compares the digests.                   *)
(***************************************************************************)
BcryptCost == 10
Digest(password, salt) == <<salt, password>>
BcryptHash(password, salt) ==
    [cost |-> BcryptCost, salt |-> salt, digest |-> Digest(password, salt)]
BcryptCompare(password, hash) == Digest(password, hash.salt) = hash.digest

(***************************************************************************)
(* The User model.                                                         *)
(***************************************************************************)
\* A lookup that resolves to the last matching document instead of the first.
UserFindOne_Last(email) ==
    LET hits == {i \in 1..Len(users) : users[i].email = email}
    IN  IF hits = {} THEN Null
        ELSE users[CHOOSE i \in hits : \A j \in hits : i >= j]

\* A lookup on a field no document has: it never finds anything.
UserFindOne_WrongField(email) == Null

\* User.findOne({ email }): the first document, in natural order, whose email
\* equals the given value; null when there is none.  An undefined email is
\* sent as null and matches no document, every user having an email.
UserFindOne(email) ==
    LET hits == {i \in 1..Len(users) : users[i].email = email}
    IN  IF hits = {} THEN Null
        ELSE users[CHOOSE i \in hits : \A j \in hits : i <= j]

\* User.create({ name, email, passwordHash }): one new document with a fresh
\* _id.  The schema (models/User.js) requires email and passwordHash, which
\* the handler has made sure of, and holds no unique index on email.
UserCreate(name, email, passwordHash) ==
    [id |-> Len(users) + 1, email |-> email, name |-> name,
     passwordHash |-> passwordHash]

\* The minimal user info the handlers put in req.session.user.
SessionUser(user) == [id |-> user.id, email |-> user.email, name |-> user.name]

(***************************************************************************)
(* express-session.                                                        *)
(***************************************************************************)
\* The session a request loads: the store's entry for its cookie.
LoadSession(t) == IF t \in DOMAIN store THEN store[t] ELSE NoUser

\* A request that carries no session cookie, and the cookies a request to an
\* admin route can carry.
NoCookie == "none"
Cookies == Tokens \cup {NoCookie}

\* At the end of a response the session is written back when the handler
\* changed it (resave: false, saveUninitialized: false).
SaveSession(t, sess0, sess) ==
    IF sess # sess0 THEN [store EXCEPT ![t] = sess] ELSE store

\* The clients' discipline: in a sequential run a request is sent only when
\* no other request is in flight.
MayStart(r) ==
    /\ slot[r] = Idle
    /\ sequential => \A q \in Slots : slot[q] = Idle

Finish(r, resp, log) ==
    [slot EXCEPT ![r] = [@ EXCEPT !.pc = "done", !.resp = resp, !.log = log]]

(***************************************************************************)
(* POST /signup                                                            *)
(***************************************************************************)
StartSignup(r) ==
    \E t \in Tokens, c \in Credentials, n \in Names :
        /\ MayStart(r)
        /\ LET e == c[1]
               p == c[2]
               req == [route |-> "POST /signup", pc |-> "findOne", tok |-> t,
                       email |-> e, password |-> p, name |-> n,
                       sess0 |-> LoadSession(t), sess |-> LoadSession(t),
                       loc |-> Null, log |-> "", resp |-> NoResponse]
           IN  slot' = [slot EXCEPT ![r] =
                   IF Falsy(e) \/ Falsy(p)
                   THEN [req EXCEPT !.pc = "done",
                                    !.log = "Signup validation failed",
                                    !.resp = Redirect("/signin")]
                   ELSE req]
        /\ UNCHANGED <<users, store, books, articles, nextBook, now, env>>

\* The signup lookup without the existence check.
SignupFindOne_NoCheck(r) ==
    /\ slot[r].pc = "findOne"
    /\ slot[r].route = "POST /signup"
    /\ \/ slot' = Finish(r, Redirect("/signin"), "Signup error:")
       \/ slot' = [slot EXCEPT ![r].pc = "hash"]
    /\ UNCHANGED <<users, store, books, articles, nextBook, now, env>>

\* await User.findOne({ email }), then the existence check.
SignupFindOne(r) ==
    /\ slot[r].pc = "findOne"
    /\ slot[r].route = "POST /signup"
    /\ \/ slot' = Finish(r, Redirect("/signin"), "Signup error:")
       \/ LET existing == UserFindOne(slot[r].email)
          IN  slot' = IF existing # Null
                      THEN Finish(r, Redirect("/signin"), "User already exists")
                      ELSE [slot EXCEPT ![r].pc = "hash"]
    /\ UNCHANGED <<users, store, books, articles, nextBook, now, env>>

\* await bcrypt.hash(password, 10)
SignupHash(r) ==
    /\ slot[r].pc = "hash"
    /\ \E salt \in Salts :
          slot' = [slot EXCEPT ![r].pc = "create",
                               ![r].loc = BcryptHash(slot[r].password, salt)]
    /\ UNCHANGED <<users, store, books, articles, nextBook, now, env>>

\* A signup that puts the user in the session before the create is known to
\* have succeeded.
SignupCreate_SessionFirst(r) ==
    /\ slot[r].pc = "create"
    /\ slot[r].route = "POST /signup"
    /\ LET user == UserCreate(slot[r].name, slot[r].email, slot[r].loc)
       IN  \/ /\ store' = SaveSession(slot[r].tok, slot[r].sess0,
                                       SessionUser(user))
              /\ slot' = [slot EXCEPT ![r] =
                     [@ EXCEPT !.pc = "done", !.sess = SessionUser(user),
                               !.resp = Redirect("/signin"),
                               !.log = "Signup error:"]]
              /\ UNCHANGED users
           \/ /\ Len(users) < MaxUsers
              /\ users' = Append(users, user)
              /\ store' = SaveSession(slot[r].tok, slot[r].sess0,
                                      SessionUser(user))
              /\ slot' = [slot EXCEPT ![r] =
                     [@ EXCEPT !.pc = "done", !.loc = user,
                               !.sess = SessionUser(user),
                               !.resp = Redirect("/home")]]
    /\ UNCHANGED <<books, articles, nextBook, now, env>>

\* await User.create(...), then the session is set and saved with the redirect.
SignupCreate(r) ==
    /\ slot[r].pc = "create"
    /\ slot[r].route = "POST /signup"
    /\ \/ /\ slot' = Finish(r, Redirect("/signin"), "Signup error:")
          /\ UNCHANGED <<users, store>>
       \/ /\ Len(users) < MaxUsers
          /\ LET user == UserCreate(slot[r].name, slot[r].email, slot[r].loc)
             IN  /\ users' = Append(users, user)
                 /\ store' = SaveSession(slot[r].tok, slot[r].sess0,
                                         SessionUser(user))
                 /\ slot' = [slot EXCEPT ![r] =
                        [@ EXCEPT !.pc = "done", !.loc = user,
                                  !.sess = SessionUser(user),
                                  !.resp = Redirect("/home")]]
    /\ UNCHANGED <<books, articles, nextBook, now, env>>

(***************************************************************************)
(* POST /signin                                                            *)
(***************************************************************************)
StartSignin(r) ==
    \E t \in Tokens, c \in Credentials :
        /\ MayStart(r)
        /\ slot' = [slot EXCEPT ![r] =
               [route |-> "POST /signin", pc |-> "findOne", tok |-> t,
                email |-> c[1], password |-> c[2], name |-> Missing,
                sess0 |-> LoadSession(t), sess |-> LoadSession(t),
                loc |-> Null, log |-> "", resp |-> NoResponse]]
        /\ UNCHANGED <<users, store, books, articles, nextBook, now, env>>

\* await User.findOne({ email })
SigninFindOne(r) ==
    /\ slot[r].pc = "findOne"
    /\ slot[r].route = "POST /signin"
    /\ \/ slot' = Finish(r, Redirect("/signin"), "Signin error:")
       \/ LET user == UserFindOne(slot[r].email)
          IN  slot' = IF user = Null
                      THEN Finish(r, Redirect("/signin"),
                                  "No account found with that email.")
                      ELSE [slot EXCEPT ![r].pc = "compare", ![r].loc = user]
    /\ UNCHANGED <<users, store, books, articles, nextBook, now, env>>

\* The password check with its result ignored.
SigninCompare_NoCheck(r) ==
    /\ slot[r].pc = "compare"
    /\ IF slot[r].password = Missing
       THEN /\ slot' = Finish(r, Redirect("/signin"), "Signin error:")
            /\ store' = store
       ELSE /\ store' = SaveSession(slot[r].tok, slot[r].sess0,
                                    SessionUser(slot[r].loc))
            /\ slot' = [slot EXCEPT ![r] =
                   [@ EXCEPT !.pc = "done",
                             !.sess = SessionUser(slot[r].loc),
                             !.resp = Redirect("/home")]]
    /\ UNCHANGED <<users, books, articles, nextBook, now, env>>

\* await bcrypt.compare(password, user.passwordHash); bcryptjs rejects an
\* argument that is not a string, which the handler catches.
SigninCompare(r) ==
    /\ slot[r].pc = "compare"
    /\ IF slot[r].password = Missing
       THEN /\ slot' = Finish(r, Redirect("/signin"), "Signin error:")
            /\ store' = store
       ELSE IF ~BcryptCompare(slot[r].password, slot[r].loc.passwordHash)
       THEN /\ slot' = Finish(r, Redirect("/signin"), "Incorrect password.")
            /\ store' = store
       ELSE /\ store' = SaveSession(slot[r].tok, slot[r].sess0,
                                    SessionUser(slot[r].loc))
            /\ slot' = [slot EXCEPT ![r] =
                   [@ EXCEPT !.pc = "done",
                             !.sess = SessionUser(slot[r].loc),
                             !.resp = Redirect("/home")]]
    /\ UNCHANGED <<users, books, articles, nextBook, now, env>>

(***************************************************************************)
(* POST /logout                                                            *)
(***************************************************************************)
StartLogout(r) ==
    \E t \in Tokens :
        /\ MayStart(r)
        /\ slot' = [slot EXCEPT ![r] =
               [route |-> "POST /logout", pc |-> "destroy", tok |-> t,
                email |-> Missing, password |-> Missing, name |-> Missing,
                sess0 |-> LoadSession(t), sess |-> LoadSession(t),
                loc |-> Null, log |-> "", resp |-> NoResponse]]
        /\ UNCHANGED <<users, store, books, articles, nextBook, now, env>>

\* A logout that redirects and leaves the store's entry in place.
LogoutDestroy_KeepsEntry(r) ==
    /\ slot[r].pc = "destroy"
    /\ slot' = [slot EXCEPT ![r] =
           [@ EXCEPT !.pc = "done", !.sess = NoUser,
                     !.resp = Redirect("/home")]]
    /\ UNCHANGED <<users, store, books, articles, nextBook, now, env>>

\* req.session.destroy(cb): the store drops the entry, then cb redirects.
LogoutDestroy(r) ==
    /\ slot[r].pc = "destroy"
    /\ store' = [store EXCEPT ![slot[r].tok] = NoUser]
    /\ slot' = [slot EXCEPT ![r] =
           [@ EXCEPT !.pc = "done", !.sess = NoUser,
                     !.resp = Redirect("/home")]]
    /\ UNCHANGED <<users, books, articles, nextBook, now, env>>

\* The response has reached the client; the slot is free again.
Deliver(r) ==
    /\ slot[r].pc = "done"
    /\ slot' = [slot EXCEPT ![r] = Idle]
    /\ UNCHANGED <<users, store, books, articles, nextBook, now, env>>

(***************************************************************************)
(* Text that the code slices: a sequence of characters.  A field that was  *)
(* not sent is written as the one-element sequence <<Missing>>, which is   *)
(* no sequence of characters.                                              *)
(***************************************************************************)
MissingText == <<Missing>>
FalsyText(s) == s = <<>> \/ s = MissingText
Chars(n, c) == [i \in 1..n |-> c]
Min(a, b) == IF a < b THEN a ELSE b

(***************************************************************************)
(* The Book model (models/Book.js).                                        *)
(***************************************************************************)
\* What MongoDB stores for a field set to null.
NullValue == "null"

\* req.params.id: the ObjectIds the collection can hand out, and a string
\* that is no ObjectId.
MalformedId == 0
BookIds == 1..MaxBooks
ParamIds == BookIds \cup {MalformedId}

\* The <<title, description>> pairs the admin form sends.
BookForms ==
    {<<"X", "D">>, <<"Y", "D">>, <<"", "D">>, <<Missing, "D">>, <<"X", "">>}
\* The form's image input, left empty.
Images == {""}

\* required: true on a String path: undefined, null and '' fail.
Required(v) == v # Missing /\ v # NullValue /\ v # ""

\* bookSchema's validation of a new document.
BookValid(doc) == Required(doc.title) /\ Required(doc.description)

\* A document built with its title and description the wrong way round.
BookDoc_Swapped(title, description, image, t) ==
    [id |-> nextBook, title |-> description, description |-> title,
     image |-> image, createdAt |-> t]

\* The document Book.create({ title, description, image }) builds: a fresh
\* _id, createdAt defaulting to Date.now.
BookDoc(title, description, image, t) ==
    [id |-> nextBook, title |-> title, description |-> description,
     image |-> image, createdAt |-> t]

Remove(seq, i) == SubSeq(seq, 1, i - 1) \o SubSeq(seq, i + 1, Len(seq))
BookAt(id) == {i \in 1..Len(books) : books[i].id = id}

\* A delete that falls back to the first document when the id matches none.
BookDelete_FirstIfNone(id) ==
    IF BookAt(id) = {}
    THEN (IF books = <<>> THEN books ELSE Remove(books, 1))
    ELSE Remove(books, CHOOSE i \in BookAt(id) : TRUE)

\* Book.findByIdAndDelete(id) for a well-formed id.
BookDelete(id) ==
    IF BookAt(id) = {} THEN books
    ELSE Remove(books, CHOOSE i \in BookAt(id) : TRUE)

\* A path of the update document: an undefined value is either dropped from
\* the update (the field is kept) or sent as null, by the mongoose installed.
SetPath(old, v) ==
    IF v = Missing THEN (IF stripsUndefined THEN old ELSE NullValue) ELSE v

\* An update that inserts the document when the id matches none (upsert).
BookUpdate_Upsert(id, title, description, image) ==
    IF BookAt(id) = {}
    THEN Append(books, [id |-> id, title |-> title,
                        description |-> description, image |-> image,
                        createdAt |-> now])
    ELSE LET i == CHOOSE j \in BookAt(id) : TRUE
         IN  [books EXCEPT ![i] =
                 [@ EXCEPT !.title = SetPath(@, title),
                           !.description = SetPath(@, description),
                           !.image = SetPath(@, image)]]

\* Book.findByIdAndUpdate(id, { title, description, image }) for a well-formed
\* id: no validators run, and nothing is created when the id matches none.
BookUpdate(id, title, description, image) ==
    IF BookAt(id) = {} THEN books
    ELSE LET i == CHOOSE j \in BookAt(id) : TRUE
         IN  [books EXCEPT ![i] =
                 [@ EXCEPT !.title = SetPath(@, title),
                           !.description = SetPath(@, description),
                           !.image = SetPath(@, image)]]

(***************************************************************************)
(* find().sort({ createdAt: -1 })                                          *)
(***************************************************************************)
Orders(n) ==
    {f \in [1..n -> 1..n] : \A i, j \in 1..n : f[i] = f[j] => i = j}
Arranged(coll, f) == [i \in 1..Len(coll) |-> coll[f[i]]]

\* A sort by createdAt, oldest first.
FindSorted_Ascending(coll) ==
    {Arranged(coll, f) : f \in
        {g \in Orders(Len(coll)) :
            \A i, j \in 1..Len(coll) :
                i < j => coll[g[i]].createdAt <= coll[g[j]].createdAt}}

\* Every arrangement of the collection with createdAt descending; documents
\* with equal createdAt come in an order the database chooses.
FindSorted(coll) ==
    {Arranged(coll, f) : f \in
        {g \in Orders(Len(coll)) :
            \A i, j \in 1..Len(coll) :
                i < j => coll[g[i]].createdAt >= coll[g[j]].createdAt}}

Render(page, list) == [status |-> 200, page |-> page, list |-> list]
Json(list) == [status |-> 200, json |-> TRUE, list |-> list]

\* A request with no body fields of interest.
Plain(route, pc, t) ==
    [route |-> route, pc |-> pc, tok |-> t,
     sess0 |-> LoadSession(t), sess |-> LoadSession(t),
     log |-> "", resp |-> NoResponse]

(***************************************************************************)
(* The listings: GET /books, GET /admin/books, GET /api/articles and       *)
(* GET /articles.  Only GET /articles catches a failing find.              *)
(***************************************************************************)
BookListings == {"GET /books", "GET /admin/books"}
ArticleListings == {"GET /articles", "GET /api/articles"}
PageOf(route) ==
    IF route = "GET /books" THEN "books"
    ELSE IF route = "GET /admin/books" THEN "admin-books"
    ELSE "articles"

StartListing(r) ==
    \E t \in Tokens, route \in BookListings \cup ArticleListings :
        /\ MayStart(r)
        /\ slot' = [slot EXCEPT ![r] = Plain(route, "find", t)]
        /\ UNCHANGED <<users, store, books, articles, nextBook, now, env>>

\* await Book.find().sort({ createdAt: -1 }), then render.  A failing find
\* rejects the handler's promise, and the handler sends nothing.
BooksFind(r) ==
    /\ slot[r].pc = "find"
    /\ slot[r].route \in BookListings
    /\ \/ slot' = [slot EXCEPT ![r].pc = "rejected"]
       \/ \E list \in FindSorted(books) :
             slot' = [slot EXCEPT ![r].pc = "done",
                          ![r].resp = Render(PageOf(slot[r].route), list)]
    /\ UNCHANGED <<users, store, books, articles, nextBook, now, env>>

\* GET /articles: a failing find is logged and the page shows no articles.
ArticlesFind(r) ==
    /\ slot[r].pc = "find"
    /\ slot[r].route = "GET /articles"
    /\ \/ slot' = [slot EXCEPT ![r].pc = "done",
                       ![r].log = "Error fetching articles from MongoDB:",
                       ![r].resp = Render("articles", <<>>)]
       \/ \E list \in FindSorted(articles) :
             slot' = [slot EXCEPT ![r].pc = "done",
                          ![r].resp = Render("articles", list)]
    /\ UNCHANGED <<users, store, books, articles, nextBook, now, env>>

\* GET /api/articles
ApiArticlesFind(r) ==
    /\ slot[r].pc = "find"
    /\ slot[r].route = "GET /api/articles"
    /\ \/ slot' = [slot EXCEPT ![r].pc = "rejected"]
       \/ \E list \in FindSorted(articles) :
             slot' = [slot EXCEPT ![r].pc = "done", ![r].resp = Json(list)]
    /\ UNCHANGED <<users, store, books, articles, nextBook, now, env>>

\* Time passes.
Tick ==
    /\ now < MaxClock
    /\ now' = now + 1
    /\ UNCHANGED <<users, store, books, articles, nextBook, slot, env, browser>>

\* The client gives up on a request the handler never answered.
Abandon(r) ==
    /\ slot[r].pc = "rejected"
    /\ slot' = [slot EXCEPT ![r] = Idle]
    /\ UNCHANGED <<users, store, books, articles, nextBook, now, env>>

(***************************************************************************)
(* POST /write                                                             *)
(***************************************************************************)
ExcerptLength == 120
Ellipsis == <<".", ".", ".">>
\* A slice that keeps the whole content.
Slice_NoLimit(s, n) == s

\* content.slice(0, 120)
Slice(s, n) == SubSeq(s, 1, Min(n, Len(s)))

\* The bodies the write form sends.
BareArticle ==
    [title |-> "T", content |-> <<"a", "b">>, tag |-> Missing,
     author |-> Missing, readTime |-> Missing, excerpt |-> MissingText,
     coverImage |-> Missing]
WriteForms ==
    {BareArticle,
     [BareArticle EXCEPT !.title = ""],
     [BareArticle EXCEPT !.title = Missing],
     [BareArticle EXCEPT !.content = <<>>],
     [BareArticle EXCEPT !.content = MissingText],
     [BareArticle EXCEPT !.content = Chars(ExcerptLength + 1, "c"),
                         !.excerpt = <<>>, !.tag = "", !.author = "",
                         !.readTime = ""],
     [BareArticle EXCEPT !.excerpt = <<"e">>, !.tag = "Poem",
                         !.author = "Ann", !.readTime = "9 min read",
                         !.coverImage = ""]}

OrElse(v, d) == IF Falsy(v) THEN d ELSE v

\* The document Article.create(...) builds from the handler's object, with
\* articleSchema's defaults for the paths that are undefined.
ArticleDoc(b, t) ==
    [id |-> Len(articles) + 1,
     title |-> b.title,
     tag |-> OrElse(b.tag, "Article"),
     author |-> OrElse(b.author, "Anonymous"),
     readTime |-> OrElse(b.readTime, "3 min read"),
     excerpt |-> IF FalsyText(b.excerpt)
                 THEN Slice(b.content, ExcerptLength) \o Ellipsis
                 ELSE b.excerpt,
     content |-> b.content,
     coverImage |-> IF b.coverImage = Missing THEN "" ELSE b.coverImage,
     isCommunity |-> TRUE,
     createdAt |-> t]
\* articleSchema's validation of a new document.
ArticleValid(doc) == Required(doc.title) /\ ~FalsyText(doc.content)

\* A validation that looks at the title alone.
WriteRejects_TitleOnly(b) == Falsy(b.title)

\* if (!title || !content)
WriteRejects(b) == Falsy(b.title) \/ FalsyText(b.content)

StartWrite(r) ==
    \E t \in Tokens, b \in WriteForms :
        /\ MayStart(r)
        /\ LET req == [Plain("POST /write", "create", t) EXCEPT !.resp = @]
                          @@ [body |-> b]
           IN  slot' = [slot EXCEPT ![r] =
                   IF WriteRejects(b)
                   THEN [req EXCEPT !.pc = "done",
                             !.resp = Send(400, "Title and content are required.")]
                   ELSE req]
        /\ UNCHANGED <<users, store, books, articles, nextBook, now, env>>

\* A create that writes over the newest article when there is one.
WriteCreate_Overwrites(r) ==
    /\ slot[r].pc = "create"
    /\ slot[r].route = "POST /write"
    /\ \/ /\ slot' = Finish(r, Send(500, "Failed to publish article."),
                           "Error creating article:")
          /\ UNCHANGED articles
       \/ LET doc == ArticleDoc(slot[r].body, now)
          IN  IF ArticleValid(doc)
                 THEN /\ articles' = IF articles = <<>> THEN <<doc>>
                                     ELSE [articles EXCEPT ![Len(articles)] = doc]
                      /\ slot' = Finish(r, Redirect("/articles"), "")
                 ELSE /\ slot' = Finish(r, Send(500, "Failed to publish article."),
                                        "Error creating article:")
                      /\ UNCHANGED articles
    /\ UNCHANGED <<users, store, books, nextBook, now, env>>

\* await Article.create({...}), then the redirect.
WriteCreate(r) ==
    /\ slot[r].pc = "create"
    /\ slot[r].route = "POST /write"
    /\ \/ /\ slot' = Finish(r, Send(500, "Failed to publish article."),
                           "Error creating article:")
          /\ UNCHANGED articles
       \/ LET doc == ArticleDoc(slot[r].body, now)
          IN  IF ArticleValid(doc)
                 THEN /\ Len(articles) < MaxArticles
                      /\ articles' = Append(articles, doc)
                      /\ slot' = Finish(r, Redirect("/articles"), "")
                 ELSE /\ slot' = Finish(r, Send(500, "Failed to publish article."),
                                        "Error creating article:")
                      /\ UNCHANGED articles
    /\ UNCHANGED <<users, store, books, nextBook, now, env>>

(***************************************************************************)
(* The admin routes for books.                                             *)
(***************************************************************************)
StartBookCreate(r) ==
    \E t \in Cookies, f \in BookForms, image \in Images :
        /\ MayStart(r)
        /\ slot' = [slot EXCEPT ![r] =
               Plain("POST /admin/books", "create", t)
                   @@ [title |-> f[1], description |-> f[2], image |-> image]]
        /\ UNCHANGED <<users, store, books, articles, nextBook, now, env>>

\* await Book.create({ title, description, image })
BookCreate(r) ==
    /\ slot[r].pc = "create"
    /\ slot[r].route = "POST /admin/books"
    /\ \/ /\ slot' = Finish(r, Send(500, "Error creating book"), "error")
          /\ UNCHANGED <<books, nextBook>>
       \/ LET doc == BookDoc(slot[r].title, slot[r].description,
                             slot[r].image, now)
          IN  IF BookValid(doc)
                 THEN /\ nextBook <= MaxBooks
                      /\ books' = Append(books, doc)
                      /\ nextBook' = nextBook + 1
                      /\ slot' = Finish(r, Redirect("/admin/books"), "")
                 ELSE /\ slot' = Finish(r, Send(500, "Error creating book"),
                                        "error")
                      /\ UNCHANGED <<books, nextBook>>
    /\ UNCHANGED <<users, store, articles, now, env>>

StartBookEdit(r) ==
    \E t \in Cookies, id \in ParamIds, f \in BookForms, image \in Images :
        /\ MayStart(r)
        /\ slot' = [slot EXCEPT ![r] =
               Plain("POST /admin/books/:id/edit", "update", t)
                   @@ [id |-> id, title |-> f[1], description |-> f[2],
                       image |-> image]]
        /\ UNCHANGED <<users, store, books, articles, nextBook, now, env>>

\* An edit that answers 404 when the update finds no document.
BookEdit_NotFound(r) ==
    /\ slot[r].pc = "update"
    /\ \/ /\ slot' = Finish(r, Send(500, "Error updating book"), "error")
          /\ UNCHANGED books
       \/ IF slot[r].id = MalformedId
          THEN /\ slot' = Finish(r, Send(500, "Error updating book"), "error")
               /\ UNCHANGED books
          ELSE IF BookAt(slot[r].id) = {}
          THEN /\ slot' = Finish(r, Send(404, "Book not found"), "")
               /\ UNCHANGED books
          ELSE /\ books' = BookUpdate(slot[r].id, slot[r].title,
                                      slot[r].description, slot[r].image)
               /\ slot' = Finish(r, Redirect("/admin/books"), "")
    /\ UNCHANGED <<users, store, articles, nextBook, now, env>>

\* await Book.findByIdAndUpdate(req.params.id, { title, description, image });
\* an id that is no ObjectId fails the cast.
BookEdit(r) ==
    /\ slot[r].pc = "update"
    /\ \/ /\ slot' = Finish(r, Send(500, "Error updating book"), "error")
          /\ UNCHANGED books
       \/ IF slot[r].id = MalformedId
          THEN /\ slot' = Finish(r, Send(500, "Error updating book"), "error")
               /\ UNCHANGED books
          ELSE /\ books' = BookUpdate(slot[r].id, slot[r].title,
                                      slot[r].description, slot[r].image)
               /\ slot' = Finish(r, Redirect("/admin/books"), "")
    /\ UNCHANGED <<users, store, articles, nextBook, now, env>>

StartBookDelete(r) ==
    \E t \in Cookies, id \in ParamIds :
        /\ MayStart(r)
        /\ slot' = [slot EXCEPT ![r] =
               Plain("POST /admin/books/:id/delete", "delete", t)
                   @@ [id |-> id]]
        /\ UNCHANGED <<users, store, books, articles, nextBook, now, env>>

\* A delete that sends a visitor who is not signed in to the signin page.
BookRemove_SignedInOnly(r) ==
    /\ slot[r].pc = "delete"
    /\ \/ /\ slot' = Finish(r, Send(500, "Error deleting book"), "error")
          /\ UNCHANGED books
       \/ IF slot[r].sess = NoUser
          THEN /\ slot' = Finish(r, Redirect("/signin"), "")
               /\ UNCHANGED books
          ELSE IF slot[r].id = MalformedId
          THEN /\ slot' = Finish(r, Send(500, "Error deleting book"), "error")
               /\ UNCHANGED books
          ELSE /\ books' = BookDelete(slot[r].id)
               /\ slot' = Finish(r, Redirect("/admin/books"), "")
    /\ UNCHANGED <<users, store, articles, nextBook, now, env>>

\* await Book.findByIdAndDelete(req.params.id)
BookRemove(r) ==
    /\ slot[r].pc = "delete"
    /\ \/ /\ slot' = Finish(r, Send(500, "Error deleting book"), "error")
          /\ UNCHANGED books
       \/ IF slot[r].id = MalformedId
          THEN /\ slot' = Finish(r, Send(500, "Error deleting book"), "error")
               /\ UNCHANGED books
          ELSE /\ books' = BookDelete(slot[r].id)
               /\ slot' = Finish(r, Redirect("/admin/books"), "")
    /\ UNCHANGED <<users, store, articles, nextBook, now, env>>

(***************************************************************************)
(* The archive page (bundle.js: ArchiveManager; json.js: its wiring).      *)
(* Texts the page slices, trims and searches are sequences of characters.  *)
(***************************************************************************)
UpperCase ==
    <<"A", "B", "C", "D", "E", "F", "G", "H", "I", "J", "K", "L", "M",
      "N", "O", "P", "Q", "R", "S", "T", "U", "V", "W", "X", "Y", "Z">>
LowerCase ==
    <<"a", "b", "c", "d", "e", "f", "g", "h", "i", "j", "k", "l", "m",
      "n", "o", "p", "q", "r", "s", "t", "u", "v", "w", "x", "y", "z">>
Letter(alphabet, c) == {i \in DOMAIN alphabet : alphabet[i] = c}
\* The two case mappings, as tables over the letters.
LowerOf ==
    [c \in {UpperCase[i] : i \in DOMAIN UpperCase} |->
        LowerCase[CHOOSE i \in Letter(UpperCase, c) : TRUE]]
UpperOf ==
    [c \in {LowerCase[i] : i \in DOMAIN LowerCase} |->
        UpperCase[CHOOSE i \in Letter(LowerCase, c) : TRUE]]
ToLowerChar(c) == IF c \in DOMAIN LowerOf THEN LowerOf[c] ELSE c
ToUpperChar(c) == IF c \in DOMAIN UpperOf THEN UpperOf[c] ELSE c
\* String.prototype.toLowerCase
ToLowerCase(s) == [i \in 1..Len(s) |-> ToLowerChar(s[i])]
\* String.prototype.trim
RECURSIVE TrimStart(_)
TrimStart(s) ==
    IF s # <<>> /\ Head(s) = " " THEN TrimStart(Tail(s)) ELSE s
RECURSIVE TrimEnd(_)
TrimEnd(s) ==
    IF s # <<>> /\ s[Len(s)] = " "
    THEN TrimEnd(SubSeq(s, 1, Len(s) - 1)) ELSE s
Trim(s) == TrimEnd(TrimStart(s))
\* String.prototype.includes
Includes(s, q) ==
    \E i \in 0..(Len(s) - Len(q)) : SubSeq(s, i + 1, i + Len(q)) = q
\* v || ''
OrEmpty(v) == IF FalsyText(v) THEN <<>> ELSE v

All == <<"A", "l", "l">>
Culture == <<"C", "u", "l", "t", "u", "r", "e">>
Food == <<"F", "o", "o", "d">>
Business == <<"B", "u", "s", "i", "n", "e", "s", "s">>
Technology == <<"T", "e", "c", "h", "n", "o", "l", "o", "g", "y">>
\* The texts of the page's .cat buttons.
CategoryTexts == {All, Culture, Food, Business, Technology}
\* ['all', 'culture', 'food', 'business', 'technology']
CategoryWords == {ToLowerCase(c) : c \in CategoryTexts}

\* The items the page can be loaded with (articles.json, or json.js's
\* DEFAULT): tags in either case and with more than the category in them,
\* and items that lack a title, an excerpt, an author or a tag.
Zen == <<"Z", "e", "n">>
Diary == <<"D", "i", "a", "r", "y">>
Pool ==
    { [id |-> 1, title |-> Zen, excerpt |-> MissingText,
       author |-> MissingText, tag |-> Culture],
      [id |-> 2, title |-> Food \o <<" ">> \o Diary, excerpt |-> MissingText,
       author |-> MissingText, tag |-> Food],
      [id |-> 3, title |-> Zen \o <<" ", "P", "o", "p">>,
       excerpt |-> <<"o", "n", " ">> \o ToLowerCase(Culture),
       author |-> <<"H", "a", "l", "l">>,
       tag |-> <<"P", "O", "P", " ", "C", "U", "L", "T", "U", "R", "E">>],
      [id |-> 4, title |-> Zen \o <<" ">> \o Food, excerpt |-> <<>>,
       author |-> <<"Z", "e", "d">>, tag |-> MissingText],
      [id |-> 5, title |-> MissingText, excerpt |-> ToLowerCase(Zen),
       author |-> MissingText, tag |-> ToLowerCase(Food)],
      [id |-> 6, title |-> Diary, excerpt |-> <<"O", "f">>,
       author |-> MissingText, tag |-> <<>>] }
ItemLists == UNION {[1..n -> Pool] : n \in 0..MaxItems}

\* What the visitor types into #searchInput.
TypedValues ==
    { <<>>, <<" ">>, Culture, ToLowerCase(Culture),
      <<"C", "U", "L", "T", "U", "R", "E">>,
      <<" ">> \o Food \o <<" ">>, ToLowerCase(All),
      ToLowerCase(Zen), <<"Z", "E", "N">>, <<" ">> \o Zen,
      <<"y", " ", "o">>, <<"q">> }

\* What .feed shows: nothing before the first render, then the cards of the
\* filtered items ("No results found." when there are none).
\* Each card has a .subscribe button, which renderFeed labels by the card's
\* key in localStorage.
NotShown == [shown |-> FALSE]
LabelOf(isSet) == IF isSet THEN "Subscribed" ELSE "Subscribe"
Shown(list) ==
    [shown |-> TRUE, list |-> list,
     labels |-> [i \in 1..Len(list) |-> LabelOf(list[i].id \in storage)]]
\* DATA.books, as articles.json gives them: a book with an id, and a book
\* whose id the page derives from its title.
DataBooks ==
    << [id |-> <<"b", "1">>, title |-> Zen, description |-> MissingText],
       [id |-> MissingText, title |-> Food \o <<" ", " ">> \o Diary,
        description |-> <<"a", " ">> \o ToLowerCase(Diary)] >>
\* String.prototype.replace(/\s+/g, '_')
RECURSIVE Underscored(_)
Underscored(s) ==
    IF s = <<>> THEN <<>>
    ELSE IF Head(s) = " " THEN <<"_">> \o Underscored(TrimStart(Tail(s)))
    ELSE <<Head(s)>> \o Underscored(Tail(s))
\* book.id || book.title.replace(/\s+/g, '_').toLowerCase()
BookIdOf(book) ==
    IF FalsyText(book.id) THEN ToLowerCase(Underscored(book.title))
    ELSE book.id
\* The book ids of the page, each of which names one key of localStorage.
ShelfIds == {BookIdOf(DataBooks[i]) : i \in DOMAIN DataBooks}
\* Auth.getCurrentUser() when the key currentUser is not set.
Nobody == [stored |-> FALSE]
\* The books page is not open, and localStorage holds none of its keys.
NoShelf ==
    /\ currentUser = Nobody
    /\ suggestions = <<>>
    /\ reviews = [id \in ShelfIds |-> <<>>]
    /\ shelf = NotShown
    /\ shelfListeners = 0
    /\ notice = "none"
NoPage ==
    /\ items = <<>>
    /\ input = <<>>
    /\ query = <<>>
    /\ activeCategory = All
    /\ feed = NotShown
    /\ storage = {}
    /\ grid = NotShown
    /\ listeners = 0
    /\ NoShelf

\* A filter that compares the tag with the category as they are written.
filterItems_CaseSensitive(list, q0, category) ==
    LET q == ToLowerCase(Trim(OrEmpty(q0)))
        combined(item) ==
            ToLowerCase(OrEmpty(item.title) \o <<" ">> \o OrEmpty(item.excerpt)
                        \o <<" ">> \o OrEmpty(item.author))
        keeps(item) ==
            /\ (~FalsyText(category) /\ category # All)
                  => /\ ~FalsyText(item.tag)
                     /\ Includes(item.tag, category)
            /\ q = <<>> \/ Includes(combined(item), q)
    IN  SelectSeq(list, keeps)

\* ArchiveManager.filterItems(items), with this.query and this.activeCategory.
filterItems(list, q0, category) ==
    LET q == ToLowerCase(Trim(OrEmpty(q0)))
        combined(item) ==
            ToLowerCase(OrEmpty(item.title) \o <<" ">> \o OrEmpty(item.excerpt)
                        \o <<" ">> \o OrEmpty(item.author))
        keeps(item) ==
            /\ (~FalsyText(category) /\ category # All)
                  => /\ ~FalsyText(item.tag)
                     /\ Includes(ToLowerCase(item.tag), ToLowerCase(category))
            /\ q = <<>> \/ Includes(combined(item), q)
    IN  SelectSeq(list, keeps)

\* The active category onSearch derives from the trimmed query.
CategoryOf(q) ==
    IF ToLowerCase(q) \in CategoryWords
    THEN IF q # <<>> THEN <<ToUpperChar(Head(q))>> \o Tail(q) ELSE All
    ELSE All

\* ArchiveManager.onSearch(e), e.target.value being value.
onSearch(value) ==
    /\ query' = Trim(OrEmpty(value))
    /\ activeCategory' = CategoryOf(query')
    /\ feed' = Shown(filterItems(items, query', activeCategory'))

\* The visitor edits #searchInput; its input event runs onSearch.
Type(value) ==
    /\ feed # NotShown
    /\ input' = value
    /\ onSearch(input')
    /\ UNCHANGED <<server, items, storage, grid, listeners, booksPage>>

\* A click on a .cat button: its trimmed text is put into #searchInput and an
\* input event is dispatched.
CategoryClick(text) ==
    /\ feed # NotShown
    /\ input' = Trim(OrEmpty(text))
    /\ onSearch(input')
    /\ UNCHANGED <<server, items, storage, grid, listeners, booksPage>>

\* ArchiveManager.onClear()
onClear ==
    /\ feed # NotShown
    /\ input' = <<>>
    /\ query' = <<>>
    /\ activeCategory' = All
    /\ feed' = Shown(filterItems(items, query', activeCategory'))
    /\ UNCHANGED <<server, items, storage, grid, listeners, booksPage>>

\* ArchiveManager.renderFeed(this.articles)
RenderFeed ==
    /\ feed = NotShown
    /\ feed' = Shown(filterItems(items, query, activeCategory))
    /\ UNCHANGED <<server, items, input, query, activeCategory, storage, grid,
                   listeners, booksPage>>

\* A toggle that only ever sets the key.
toggleSubscribe_SetOnly(keys, id) == keys \cup {id}

\* ArchiveManager.toggleSubscribe(id, button), on localStorage's keys: the
\* key is removed when set and set (to '1') when not.
toggleSubscribe(keys, id) ==
    IF id \in keys THEN keys \ {id} ELSE keys \cup {id}

\* ArchiveManager.onContainerClick(e), the click being on the .subscribe
\* button of the i-th card: the key is toggled and that button relabelled.
SubscribeClick(i) ==
    /\ feed # NotShown
    /\ i \in 1..Len(feed.list)
    /\ storage' = toggleSubscribe(storage, feed.list[i].id)
    /\ feed' = [feed EXCEPT
                   !.labels[i] = LabelOf(feed.list[i].id \in storage')]
    /\ UNCHANGED <<server, items, input, query, activeCategory, grid,
                   listeners, booksPage>>

ArchiveNext ==
    \/ \E value \in TypedValues : Type(value)
    \/ \E text \in CategoryTexts : CategoryClick(text)
    \/ onClear
    \/ \E i \in 1..MaxItems : SubscribeClick(i)

(***************************************************************************)
(* The articles page (bundle.js: renderArticlesPage; json.js: its search   *)
(* listener).                                                              *)
(***************************************************************************)
\* a.title + ' ': a title that is undefined reads 'undefined'.
Undefined == <<"u", "n", "d", "e", "f", "i", "n", "e", "d">>
StringOf(v) == IF v = MissingText THEN Undefined ELSE v

\* The search listener's filter over DATA.articles.
SearchArticles(list, value) ==
    LET q == ToLowerCase(Trim(OrEmpty(value)))
        matches(a) ==
            Includes(ToLowerCase(StringOf(a.title) \o <<" ">>
                                 \o OrEmpty(a.excerpt) \o <<" ">>
                                 \o OrEmpty(a.author)), q)
    IN  SelectSeq(list, matches)

\* The cards renderArticlesPage builds: every button reads 'Subscribe'.
Cards(list) ==
    [shown |-> TRUE, list |-> list,
     labels |-> [i \in 1..Len(list) |-> "Subscribe"]]

\* One run of the click listener renderArticlesPage adds to the container.
Listener(keys, id) == IF id \in keys THEN keys \ {id} ELSE keys \cup {id}

\* A click event on the container runs every listener added to it, in turn.
RECURSIVE Dispatch(_, _, _)
Dispatch(keys, id, n) ==
    IF n = 0 THEN keys ELSE Dispatch(Listener(keys, id), id, n - 1)

\* An input event on the articles page's #searchInput: the articles are
\* filtered and renderArticlesPage renders them into the same container,
\* adding its click listener once more.
ArticlesSearch(value) ==
    /\ grid # NotShown
    /\ listeners <= MaxRenders
    /\ input' = value
    /\ grid' = Cards(SearchArticles(items, value))
    /\ listeners' = listeners + 1
    /\ UNCHANGED <<server, items, query, activeCategory, feed, storage,
                   booksPage>>

\* A click on the .subscribe button of the i-th card of the articles page.
GridClick(i) ==
    /\ grid # NotShown
    /\ i \in 1..Len(grid.list)
    /\ storage' = Dispatch(storage, grid.list[i].id, listeners)
    /\ grid' = [grid EXCEPT
                   !.labels[i] = LabelOf(grid.list[i].id \in storage')]
    /\ UNCHANGED <<server, items, input, query, activeCategory, feed,
                   listeners, booksPage>>

PageNext ==
    \/ \E value \in TypedValues : ArticlesSearch(value)
    \/ \E i \in 1..MaxItems : GridClick(i)

(***************************************************************************)
(* The books page (bundle.js: Auth, BookData, renderBooksPage; json.js:    *)
(* its search listener).  The ids and dates of the stored entries come     *)
(* from the clock and are left out.                                        *)
(***************************************************************************)
\* The address a visitor signs in with on the client.
Emails == { <<"A", "@", "x">> }
\* What the visitor types into #bookSuggestionInput or a .review-input.
EntryTexts == { <<>>, <<" ">>, <<" ">> \o Zen \o <<" ">>, Diary }
\* What the visitor types into the books page's #searchInput.
ShelfQueries ==
    { <<>>, <<"Z", "E", "N">>, <<" ">> \o Food \o <<" ">>, <<"q">> }
Anonymous == <<"A", "n", "o", "n", "y", "m", "o", "u", "s">>

\* Auth.isSignedIn()
isSignedIn_Always(user) == TRUE
isSignedIn(user) == user.stored

\* (Auth.getCurrentUser() || {}).email || 'Anonymous'
AuthorOf(user) ==
    IF user.stored /\ ~FalsyText(user.email) THEN user.email ELSE Anonymous

\* BookData.addSuggestion(s)
addSuggestion(list, s, user) ==
    <<[text |-> s, author |-> AuthorOf(user)]>> \o list

\* BookData.addReview(bookId, reviewText)
addReview(lists, bookId, reviewText, user) ==
    [lists EXCEPT
        ![bookId] = <<[text |-> reviewText, author |-> AuthorOf(user)]>> \o @]

\* Auth.signIn(email)
SignIn(email) ==
    /\ currentUser' = [stored |-> TRUE, email |-> ToLowerCase(email)]
    /\ UNCHANGED <<server, items, input, query, activeCategory, feed, storage,
                   grid, listeners, suggestions, reviews, shelf,
                   shelfListeners, notice>>

\* Auth.signOut()
SignOut ==
    /\ currentUser' = Nobody
    /\ UNCHANGED <<server, items, input, query, activeCategory, feed, storage,
                   grid, listeners, suggestions, reviews, shelf,
                   shelfListeners, notice>>

\* The cards renderBooksPage builds: each carries its book id in data-bookid.
BookCards(list) ==
    [shown |-> TRUE, list |-> [i \in 1..Len(list) |-> BookIdOf(list[i])]]

\* The search listener's filter over DATA.books.
SearchBooks(list, value) ==
    LET q == ToLowerCase(Trim(OrEmpty(value)))
        matches(b) ==
            Includes(ToLowerCase(StringOf(b.title) \o <<" ">>
                                 \o OrEmpty(b.description)), q)
    IN  SelectSeq(list, matches)

\* An input event on the books page's #searchInput: the books are filtered
\* and renderBooksPage renders them into the same container, adding its
\* click listener once more.
BooksSearch(value) ==
    /\ shelf # NotShown
    /\ shelfListeners <= MaxRenders
    /\ shelf' = BookCards(SearchBooks(DataBooks, value))
    /\ shelfListeners' = shelfListeners + 1
    /\ UNCHANGED <<server, items, input, query, activeCategory, feed, storage,
                   grid, listeners, currentUser, suggestions, reviews,
                   notice>>

\* A click on #bookSuggestionBtn with the given text in the input.  The
\* button is built anew by every render, so one listener runs.
SuggestClick(text) ==
    LET val == Trim(text)
    IN  /\ shelf # NotShown
        /\ IF val = <<>>
           THEN notice' = "alert" /\ UNCHANGED suggestions
           ELSE IF ~isSignedIn(currentUser)
           THEN notice' = "signin" /\ UNCHANGED suggestions
           ELSE /\ Len(suggestions) < MaxEntries
                /\ suggestions' = addSuggestion(suggestions, val, currentUser)
                /\ notice' = "none"
        /\ UNCHANGED <<server, items, input, query, activeCategory, feed,
                       storage, grid, listeners, currentUser, reviews, shelf,
                       shelfListeners>>

\* One run of the click listener renderBooksPage adds to the container, over
\* the stored reviews, the card's textarea and what the page has done.
ReviewListener(st, bookId, user) ==
    LET val == Trim(st.text)
    IN  IF val = <<>> THEN [st EXCEPT !.notice = "alert"]
        ELSE IF ~isSignedIn(user) THEN [st EXCEPT !.notice = "signin"]
        ELSE [st EXCEPT !.lists = addReview(st.lists, bookId, val, user),
                        !.text = <<>>]

\* A click event on the container runs every listener added to it, in turn.
RECURSIVE ReviewDispatch(_, _, _, _)
ReviewDispatch(st, bookId, user, n) ==
    IF n = 0 THEN st
    ELSE ReviewDispatch(ReviewListener(st, bookId, user), bookId, user, n - 1)

\* A click on the .review-btn of the i-th card with the given text in the
\* card's textarea.
ReviewClick(i, text) ==
    /\ shelf # NotShown
    /\ i \in 1..Len(shelf.list)
    /\ LET st == ReviewDispatch([lists |-> reviews, text |-> text,
                                 notice |-> "none"],
                                shelf.list[i], currentUser, shelfListeners)
       IN  /\ \A id \in ShelfIds : Len(st.lists[id]) <= MaxEntries
           /\ reviews' = st.lists
           /\ notice' = st.notice
    /\ UNCHANGED <<server, items, input, query, activeCategory, feed, storage,
                   grid, listeners, currentUser, suggestions, shelf,
                   shelfListeners>>

ShelfNext ==
    \/ \E email \in Emails : SignIn(email)
    \/ SignOut
    \/ \E value \in ShelfQueries : BooksSearch(value)
    \/ \E text \in EntryTexts : SuggestClick(text)
    \/ \E i \in 1..Len(DataBooks), text \in EntryTexts : ReviewClick(i, text)

\* The values the manager's two fields are given: a query as typed or
\* trimmed, and the categories onSearch derives.
Queries == TypedValues
ActiveCategories ==
    {CategoryOf(Trim(v)) : v \in TypedValues \cup CategoryTexts}

(***************************************************************************)
(* Specifications.                                                         *)
(***************************************************************************)
InitServer ==
    /\ users = <<>>
    /\ store = [t \in Tokens |-> NoUser]
    /\ books = <<>>
    /\ articles = <<>>
    /\ nextBook = 1
    /\ now = 0
    /\ slot = [r \in Slots |-> Idle]

AuthNext ==
    /\ UNCHANGED browser
    /\ \E r \in Slots :
           \/ StartSignup(r)
           \/ SignupFindOne(r)
           \/ SignupHash(r)
           \/ SignupCreate(r)
           \/ StartSignin(r)
           \/ SigninFindOne(r)
           \/ SigninCompare(r)
           \/ StartLogout(r)
           \/ LogoutDestroy(r)
           \/ Deliver(r)

\* The auth routes: requests interleaving at their awaits, and requests sent
\* strictly one after another.
InitAuth ==
    InitServer /\ NoPage /\ sequential \in BOOLEAN /\ stripsUndefined = TRUE
SpecAuth == InitAuth /\ [][AuthNext]_vars

ContentNext ==
    /\ UNCHANGED browser
    /\ \E r \in Slots :
           \/ StartListing(r)
           \/ BooksFind(r)
           \/ ArticlesFind(r)
           \/ ApiArticlesFind(r)
           \/ Abandon(r)
           \/ StartWrite(r)
           \/ WriteCreate(r)
           \/ StartBookCreate(r)
           \/ BookCreate(r)
           \/ StartBookEdit(r)
           \/ BookEdit(r)
           \/ StartBookDelete(r)
           \/ BookRemove(r)
           \/ Deliver(r)

\* The content routes.  Each of their handlers awaits one database operation,
\* so interleaved handlers act as the same operations in some order; the
\* requests are taken one at a time.
InitContent ==
    InitServer /\ NoPage /\ sequential = TRUE /\ stripsUndefined \in BOOLEAN
SpecContent == InitContent /\ [][ContentNext \/ Tick]_vars

BooksNext ==
    /\ UNCHANGED browser
    /\ \E r \in Slots :
           \/ StartListing(r)
           \/ BooksFind(r)
           \/ ArticlesFind(r)
           \/ ApiArticlesFind(r)
           \/ Abandon(r)
           \/ StartBookCreate(r)
           \/ BookCreate(r)
           \/ StartBookEdit(r)
           \/ BookEdit(r)
           \/ StartBookDelete(r)
           \/ BookRemove(r)
           \/ Deliver(r)
\* The book routes, all requests arriving within one tick of the clock.
SpecBooks == InitContent /\ [][BooksNext]_vars

\* The book routes called by visitors of every kind: nobody has signed up, a
\* member is signed in on the browser's session, or the member has logged
\* out; and a request carries the browser's cookie or none.
Member ==
    [id |-> 1, email |-> "a@x", name |-> "N",
     passwordHash |-> BcryptHash("pw1", "s1")]
InitAdmin ==
    /\ \/ users = <<>> /\ store = [t \in Tokens |-> NoUser]
       \/ users = <<Member>> /\ store = [t \in Tokens |-> NoUser]
       \/ users = <<Member>> /\ store = [t \in Tokens |-> SessionUser(Member)]
    /\ books = <<>>
    /\ articles = <<>>
    /\ nextBook = 1
    /\ now = 0
    /\ slot = [r \in Slots |-> Idle]
    /\ NoPage /\ sequential = TRUE /\ stripsUndefined \in BOOLEAN
SpecAdmin == InitAdmin /\ [][BooksNext]_vars

ArticlesNext ==
    /\ UNCHANGED browser
    /\ \E r \in Slots :
           \/ StartListing(r)
           \/ BooksFind(r)
           \/ ArticlesFind(r)
           \/ ApiArticlesFind(r)
           \/ Abandon(r)
           \/ StartWrite(r)
           \/ WriteCreate(r)
           \/ Deliver(r)
\* The article routes.
SpecArticles == InitContent /\ [][ArticlesNext \/ Tick]_vars

\* The routes that write users and articles, with the listings, requests
\* taken one at a time.
InitRecords ==
    InitServer /\ NoPage /\ sequential = TRUE /\ stripsUndefined = TRUE
SpecRecords == InitRecords /\ [][AuthNext \/ ArticlesNext \/ Tick]_vars

\* The archive page: the manager as constructed over the page's items, then
\* the visitor's typing and clicking.  The server is not involved.
InitArchive ==
    /\ InitServer /\ sequential = TRUE /\ stripsUndefined = TRUE
    /\ items \in ItemLists
    /\ input = <<>>
    /\ query = <<>>
    /\ activeCategory = All
    /\ storage = {}
    /\ grid = NotShown
    /\ listeners = 0
    /\ NoShelf
    /\ feed = Shown(filterItems(items, query, activeCategory))
SpecArchive == InitArchive /\ [][ArchiveNext]_vars

\* The articles page: renderArticlesPage(DATA.articles, '.right-grid') has
\* rendered every article and added the first click listener.
InitPage ==
    /\ InitServer /\ sequential = TRUE /\ stripsUndefined = TRUE
    /\ items \in ItemLists
    /\ input = <<>>
    /\ query = <<>>
    /\ activeCategory = All
    /\ feed = NotShown
    /\ storage = {}
    /\ grid = Cards(items)
    /\ listeners = 1
    /\ NoShelf
SpecPage == InitPage /\ [][PageNext]_vars

\* filterItems over every state of the manager's two fields.
InitFilter ==
    /\ InitServer /\ sequential = TRUE /\ stripsUndefined = TRUE
    /\ items \in ItemLists
    /\ input = <<>>
    /\ query \in Queries
    /\ activeCategory \in ActiveCategories
    /\ feed = NotShown
    /\ storage = {}
    /\ grid = NotShown
    /\ listeners = 0
    /\ NoShelf
SpecFilter == InitFilter /\ [][RenderFeed]_vars

\* The books page: renderBooksPage(DATA.books, 'booksContainer') has rendered
\* every book and added the first click listener; nobody is signed in yet.
InitShelf ==
    /\ InitServer /\ sequential = TRUE /\ stripsUndefined = TRUE
    /\ items = <<>>
    /\ input = <<>>
    /\ query = <<>>
    /\ activeCategory = All
    /\ feed = NotShown
    /\ storage = {}
    /\ grid = NotShown
    /\ listeners = 0
    /\ currentUser = Nobody
    /\ suggestions = <<>>
    /\ reviews = [id \in ShelfIds |-> <<>>]
    /\ shelf = BookCards(DataBooks)
    /\ shelfListeners = 1
    /\ notice = "none"
SpecShelf == InitShelf /\ [][ShelfNext]_vars

Init ==
    /\ InitServer /\ sequential \in BOOLEAN /\ stripsUndefined \in BOOLEAN
    /\ items \in ItemLists
    /\ input = <<>>
    /\ query = <<>>
    /\ activeCategory = All
    /\ storage = {}
    /\ grid = NotShown
    /\ listeners = 0
    /\ NoShelf
    /\ feed = Shown(filterItems(items, query, activeCategory))
Next ==
    AuthNext \/ ContentNext \/ Tick \/ ArchiveNext \/ PageNext \/ ShelfNext
Spec == Init /\ [][Next]_vars

(***************************************************************************)
(* Vocabulary of the claims.                                               *)
(***************************************************************************)
Done(r, route) == slot[r].pc = "done" /\ slot[r].route = route
\* A body field that is empty or was not sent.
Absent(v) == v \in {"", Missing}
\* The step in which request r, suspended at pc, resumes.
Resumes(r, route, pc) ==
    /\ slot[r].pc = pc
    /\ slot[r].route = route
    /\ slot'[r] # slot[r]
\* The step in which request r is answered.
Answered(r, route) ==
    /\ slot[r].pc # "done"
    /\ slot'[r].pc = "done"
    /\ slot'[r].route = route
EmailTaken(e) == \E i \in 1..Len(users) : users[i].email = e
\* users[i] is the record a lookup by its email resolves to.
FirstOfEmail(i) == \A j \in 1..(i - 1) : users[j].email # users[i].email
IdentityOf(u) == [id |-> u.id, email |-> u.email, name |-> u.name]
SignedUp(r) ==
    /\ slot[r].resp = Redirect("/home")
    /\ slot[r].loc.id \in 1..Len(users)
    /\ users[slot[r].loc.id] = slot[r].loc
    /\ slot[r].loc.email = slot[r].email
    /\ BcryptCompare(slot[r].password, slot[r].loc.passwordHash)
    /\ slot[r].sess = IdentityOf(slot[r].loc)
CreatesOne(r) ==
    /\ Len(users') = Len(users) + 1
    /\ SubSeq(users', 1, Len(users)) = users
    /\ users'[Len(users')] = slot'[r].loc
SignedIn(r, u) ==
    /\ slot'[r].pc = "done"
    /\ slot'[r].resp = Redirect("/home")
    /\ slot'[r].sess = IdentityOf(u)

(***************************************************************************)
(* C1 as stated: every POST /signup with a non-empty email and password    *)
(* whose email is not taken creates exactly one user, holds that user's    *)
(* {id, email, name} in the session and redirects to /home; and every      *)
(* later POST /signin with the same email and password signs that user in  *)
(* and redirects to /home.                                                 *)
(***************************************************************************)
C1_AsStated ==
    /\ [](\A r \in Slots :
            (/\ Done(r, "POST /signup")
             /\ ~Absent(slot[r].email) /\ ~Absent(slot[r].password)
             /\ slot[r].log # "User already exists") => SignedUp(r))
    /\ [][\A r \in Slots :
            (Answered(r, "POST /signup") /\ slot'[r].resp = Redirect("/home"))
                => CreatesOne(r)]_vars
    /\ [][\A r \in Slots : \A i \in 1..Len(users) :
            (/\ Resumes(r, "POST /signin", "findOne")
             /\ users[i].email = slot[r].email
             /\ BcryptCompare(slot[r].password, users[i].passwordHash))
                => /\ slot'[r].pc = "compare"
                   /\ slot'[r].loc = users[i]]_vars
    /\ [][\A r \in Slots :
            (/\ Resumes(r, "POST /signin", "compare")
             /\ BcryptCompare(slot[r].password, slot[r].loc.passwordHash))
                => SignedIn(r, slot[r].loc)]_vars

(***************************************************************************)
(* C1, amended: every POST /signup with a non-empty email and password     *)
(* whose lookup finds no user with that email, and whose persistence       *)
(* operations do not fail, creates exactly one user, holds that user's     *)
(* {id, email, name} in the session and redirects to /home; a later POST   *)
(* /signin with the same email and password whose lookup does not fail     *)
(* signs that user in and redirects to /home, provided the user is the     *)
(* first record with that email (interleaved signups can leave several).   *)
(***************************************************************************)
C1_SignupThenSignin ==
    /\ [](\A r \in Slots :
            (/\ Done(r, "POST /signup")
             /\ ~Absent(slot[r].email) /\ ~Absent(slot[r].password)
             /\ slot[r].log # "User already exists"
             /\ slot[r].log # "Signup error:") => SignedUp(r))
    /\ [][\A r \in Slots :
            (Answered(r, "POST /signup") /\ slot'[r].resp = Redirect("/home"))
                => CreatesOne(r)]_vars
    /\ [][\A r \in Slots : \A i \in 1..Len(users) :
            (/\ Resumes(r, "POST /signin", "findOne")
             /\ slot'[r].log # "Signin error:"
             /\ users[i].email = slot[r].email
             /\ FirstOfEmail(i)
             /\ BcryptCompare(slot[r].password, users[i].passwordHash))
                => /\ slot'[r].pc = "compare"
                   /\ slot'[r].loc = users[i]]_vars
    /\ [][\A r \in Slots :
            (/\ Resumes(r, "POST /signin", "compare")
             /\ BcryptCompare(slot[r].password, slot[r].loc.passwordHash))
                => SignedIn(r, slot[r].loc)]_vars

\* A signup has created the second user, and a signin has then signed a
\* user in.
C1_Witness ==
    \E r, q \in Slots :
        /\ Done(r, "POST /signup") /\ SignedUp(r) /\ slot[r].loc.id = 2
        /\ Done(q, "POST /signin") /\ slot[q].resp = Redirect("/home")
        /\ slot[q].sess = IdentityOf(users[1])

(***************************************************************************)
(* C2 as stated: a POST /signup that fails (email or password missing, or  *)
(* the email taken) creates no user, leaves the request's session without  *)
(* a user and redirects to /signin; the users are unchanged by the call.   *)
(***************************************************************************)
SignupRejected(r) ==
    /\ Done(r, "POST /signup")
    /\ \/ Absent(slot[r].email)
       \/ Absent(slot[r].password)
       \/ slot[r].log = "User already exists"
C2_AsStated ==
    \A r \in Slots :
        SignupRejected(r) =>
            /\ slot[r].resp = Redirect("/signin")
            /\ slot[r].loc = Null
            /\ slot[r].sess = NoUser

(***************************************************************************)
(* C2, amended: a POST /signup that fails (email or password missing, or   *)
(* the lookup finds a user with that email) creates no user, sets no user  *)
(* in the request's session (the session and the store's entry stay as they*)
(* were, signed in or not) and redirects to /signin; the users are         *)
(* unchanged by the call.                                                  *)
(***************************************************************************)
C2_FailedSignup ==
    /\ [](\A r \in Slots :
            SignupRejected(r) =>
                /\ slot[r].resp = Redirect("/signin")
                /\ slot[r].loc = Null
                /\ slot[r].sess = slot[r].sess0)
    /\ [][\A r \in Slots :
            (/\ Resumes(r, "POST /signup", "findOne")
             /\ EmailTaken(slot[r].email))
                => /\ slot'[r].pc = "done"
                   /\ slot'[r].resp = Redirect("/signin")]_vars
    /\ [][\A r \in Slots :
            (Answered(r, "POST /signup") /\ slot'[r].resp # Redirect("/home"))
                => /\ users' = users
                   /\ store' = store]_vars
    /\ [][users' # users
            => \E r \in Slots :
                  /\ Answered(r, "POST /signup")
                  /\ slot'[r].resp = Redirect("/home")]_vars

\* A signed-in browser posts a signup for a taken email and is turned away.
C2_Witness ==
    \E r \in Slots :
        /\ Done(r, "POST /signup")
        /\ slot[r].log = "User already exists"
        /\ slot[r].sess0 # NoUser

(***************************************************************************)
(* C3: two POST /signup for the same unused email whose handlers           *)
(* interleave at their awaits can both pass the existence check and both   *)
(* create a user, so two users sharing an email are reachable; when the    *)
(* requests are handled strictly one after another they are not.           *)
(***************************************************************************)
DuplicateEmail ==
    \E i, j \in 1..Len(users) : i # j /\ users[i].email = users[j].email
C3_DuplicateOnlyByRace == sequential => ~DuplicateEmail

\* Interleaved signups have left two users with one email.
C3_Witness == ~sequential /\ DuplicateEmail

(***************************************************************************)
(* C4: a POST /signin establishes a session only when a user with the      *)
(* given email exists and the given password matches that user's hash; in  *)
(* every other case (no such user, wrong password, missing password,       *)
(* persistence error) this call sets no session user and the response is   *)
(* a redirect to /signin.                                                  *)
(***************************************************************************)
Matches(r, i) ==
    /\ users[i].email = slot[r].email
    /\ slot[r].password # Missing
    /\ BcryptCompare(slot[r].password, users[i].passwordHash)
C4_SigninOnlyWithPassword ==
    /\ [](\A r \in Slots :
            Done(r, "POST /signin") =>
                /\ slot[r].resp = Redirect("/home") =>
                      \E i \in 1..Len(users) :
                          Matches(r, i) /\ slot[r].sess = IdentityOf(users[i])
                /\ slot[r].resp # Redirect("/home") =>
                      /\ slot[r].resp = Redirect("/signin")
                      /\ slot[r].sess = slot[r].sess0
                /\ (\/ slot[r].log = "Signin error:"
                    \/ slot[r].password = Missing
                    \/ \A i \in 1..Len(users) : ~Matches(r, i))
                      => slot[r].resp = Redirect("/signin"))
    /\ [][\A r \in Slots :
            (Answered(r, "POST /signin") /\ slot'[r].resp # Redirect("/home"))
                => store' = store]_vars

\* One signin has been turned away for its password, another has succeeded.
C4_Witness ==
    \E r, q \in Slots :
        /\ Done(r, "POST /signin") /\ slot[r].log = "Incorrect password."
        /\ Done(q, "POST /signin") /\ slot[q].resp = Redirect("/home")

(***************************************************************************)
(* C5: POST /logout destroys the caller's session whether or not a user    *)
(* was signed in, and redirects to /home; from then on a request carrying  *)
(* the same token loads a session without a user, until a signup or a      *)
(* signin with that token succeeds.                                        *)
(***************************************************************************)
C5_LogoutDestroys ==
    /\ [](\A r \in Slots :
            Done(r, "POST /logout") => slot[r].resp = Redirect("/home"))
    /\ [][\A r \in Slots :
            Answered(r, "POST /logout") => store'[slot[r].tok] = NoUser]_vars
    /\ [][\A t \in Tokens :
            (store[t] = NoUser /\ store'[t] # NoUser)
                => \E r \in Slots :
                      /\ \/ Answered(r, "POST /signup")
                         \/ Answered(r, "POST /signin")
                      /\ slot'[r].tok = t
                      /\ slot'[r].resp = Redirect("/home")]_vars
    /\ [][\A r \in Slots :
            (slot[r] = Idle /\ slot'[r] # Idle)
                => slot'[r].sess0 = store[slot'[r].tok]]_vars

\* A signed-in browser has logged out and its token holds no user.
C5_Witness ==
    \E r \in Slots :
        /\ Done(r, "POST /logout")
        /\ slot[r].sess0 # NoUser
        /\ store[slot[r].tok] = NoUser

(***************************************************************************)
(* C6: a POST /write whose title or content is missing or empty creates no *)
(* article (the collection is unchanged) and is answered with status 400.  *)
(***************************************************************************)
AbsentText(t) == t = <<>> \/ t = MissingText
Incomplete(b) == Absent(b.title) \/ AbsentText(b.content)
C6_IncompleteWrite ==
    /\ [](\A r \in Slots :
            (Done(r, "POST /write") /\ Incomplete(slot[r].body))
                => slot[r].resp.status = 400)
    /\ [][\A r \in Slots :
            (Answered(r, "POST /write") /\ Incomplete(slot'[r].body))
                => articles' = articles]_vars

\* A write without content has been refused while an article is stored.
C6_Witness ==
    \E r \in Slots :
        /\ Done(r, "POST /write")
        /\ AbsentText(slot[r].body.content)
        /\ slot[r].resp.status = 400
        /\ Len(articles) = 1

(***************************************************************************)
(* C7 as stated: after any sequence of create, update and delete, every    *)
(* listing (GET /books, GET /admin/books, GET /articles, GET /api/articles)*)
(* returns all records of its collection, each record's createdAt greater  *)
(* than or equal to that of the record after it.                           *)
(***************************************************************************)
Listings == BookListings \cup ArticleListings
CollectionOf(route) == IF route \in BookListings THEN books ELSE articles
SameRecords(list, coll) ==
    /\ Len(list) = Len(coll)
    /\ \A i \in 1..Len(coll) : \E j \in 1..Len(list) : list[j] = coll[i]
NewestFirst(list) ==
    \A i \in 1..(Len(list) - 1) : list[i].createdAt >= list[i + 1].createdAt
FindFailed(r) == slot'[r].log = "Error fetching articles from MongoDB:"
NoBook(id) == \A i \in 1..Len(books) : books[i].id # id
DeleteRoute == "POST /admin/books/:id/delete"
C10_AsStated ==
    [][\A r \in Slots :
          (Answered(r, DeleteRoute) /\ NoBook(slot[r].id))
              => /\ books' = books
                 /\ slot'[r].resp = Redirect("/admin/books")]_vars

(***************************************************************************)
(* C10, amended: POST /admin/books/:id/delete with an id that matches no   *)
(* book leaves the books unchanged; it redirects to /admin/books when the  *)
(* id is a well-formed ObjectId and the operation does not fail, and       *)
(* answers 500 otherwise.  A delete that redirects leaves the books        *)
(* without that id and otherwise as they were, and an id is never handed   *)
(* out again, so deleting an id twice leaves what deleting it once leaves. *)
(***************************************************************************)
Without(id) == SelectSeq(books, LAMBDA b : b.id # id)
C10_DeleteNoMatch ==
    /\ [][\A r \in Slots :
            (Answered(r, DeleteRoute) /\ NoBook(slot[r].id))
                => /\ books' = books
                   /\ \/ slot'[r].resp = Redirect("/admin/books")
                      \/ slot'[r].resp = Send(500, "Error deleting book")
                   /\ slot[r].id = MalformedId
                        => slot'[r].resp = Send(500, "Error deleting book")
                   /\ (slot[r].id # MalformedId /\ slot'[r].log # "error")
                        => slot'[r].resp = Redirect("/admin/books")]_vars
    /\ [][\A r \in Slots :
            (/\ Answered(r, DeleteRoute)
             /\ slot'[r].resp = Redirect("/admin/books"))
                => books' = Without(slot[r].id)]_vars
    /\ [](\A i \in 1..Len(books) :
            /\ books[i].id < nextBook
            /\ \A j \in 1..Len(books) : books[i].id = books[j].id => i = j)

\* A delete of an id no book ever had has redirected, a book being stored.
C10_Witness ==
    \E r \in Slots :
        /\ Done(r, DeleteRoute)
        /\ slot[r].resp = Redirect("/admin/books")
        /\ NoBook(slot[r].id)
        /\ Len(books) >= 1

(***************************************************************************)
(* C8: for every item list and every (query, activeCategory) state,        *)
(* filterItems returns exactly the items, in their original relative       *)
(* order, for which (activeCategory is 'All' or the item's tag contains    *)
(* activeCategory ignoring case) and (the trimmed query is empty or the    *)
(* string title + ' ' + excerpt + ' ' + author contains the query ignoring *)
(* case); items without a tag are excluded whenever activeCategory is not  *)
(* 'All'.                                                                  *)
(***************************************************************************)
HasText(t) == t # <<>> /\ t # MissingText
TextOf(t) == IF HasText(t) THEN t ELSE <<>>
ContainsIgnoringCase(t, part) == Includes(ToLowerCase(t), ToLowerCase(part))
TagContains(item, category) ==
    HasText(item.tag) /\ ContainsIgnoringCase(item.tag, category)
TextContains(item, q) ==
    ContainsIgnoringCase(
        TextOf(item.title) \o <<" ">> \o TextOf(item.excerpt) \o <<" ">>
            \o TextOf(item.author), q)
C8_Selected(item) ==
    /\ activeCategory = All \/ TagContains(item, activeCategory)
    /\ Trim(query) = <<>> \/ TextContains(item, Trim(query))
C8_FilterItems ==
    feed # NotShown => feed.list = SelectSeq(items, C8_Selected)

\* A category in another case than the tag, a query to trim, and of one item
\* with a matching tag and one without a tag only the former is shown.
C8_Witness ==
    /\ feed # NotShown
    /\ activeCategory = Culture
    /\ Trim(query) # <<>> /\ Trim(query) # query
    /\ Len(items) = 2 /\ Len(feed.list) = 1
    /\ \E i \in 1..2 : ~HasText(items[i].tag)
    /\ feed.list[1].tag # Culture

(***************************************************************************)
(* C9 as stated: on the archive page, filtering by a category C (a button  *)
(* click or typing C, one of All/Culture/Food/Business/Technology) yields  *)
(* exactly the articles whose tag contains C ignoring case (every article  *)
(* for 'All'), whatever their title, excerpt and author are; filtering by  *)
(* a non-category query q in any letter case yields exactly the articles   *)
(* whose title, excerpt or author text contains q ignoring case.           *)
(***************************************************************************)
C9_OfCategory(item) ==
    ToLowerCase(Trim(input)) = ToLowerCase(All) \/ TagContains(item, Trim(input))
C9_OfQuery(item) == TextContains(item, Trim(input))
C9_AsStated ==
    feed # NotShown =>
        feed.list = IF ToLowerCase(Trim(input)) \in CategoryWords
                    THEN SelectSeq(items, C9_OfCategory)
                    ELSE SelectSeq(items, C9_OfQuery)

(***************************************************************************)
(* C11: after POST /admin/books with title X and description Y succeeds,   *)
(* every book listing includes a record with title X and description Y     *)
(* until that record is updated or deleted; the create adds exactly one    *)
(* record and changes no other book.                                       *)
(***************************************************************************)
CreateRoute == "POST /admin/books"
EditRoute == "POST /admin/books/:id/edit"
Lists(list, book) == \E j \in 1..Len(list) : list[j] = book
C11_CreateThenList ==
    \* the create adds one record, of the title and description sent
    /\ [][\A r \in Slots :
            (/\ Answered(r, CreateRoute)
             /\ slot'[r].resp = Redirect("/admin/books"))
                => /\ Len(books') = Len(books) + 1
                   /\ SubSeq(books', 1, Len(books)) = books
                   /\ books'[Len(books')].title = slot[r].title
                   /\ books'[Len(books')].description = slot[r].description
                   /\ NoBook(books'[Len(books')].id)]_vars
    \* a record stays as it is until an update or a delete of its id
    /\ [][\A i \in 1..Len(books) :
            \/ Lists(books', books[i])
            \/ \E r \in Slots :
                  /\ Answered(r, EditRoute) \/ Answered(r, DeleteRoute)
                  /\ slot[r].id = books[i].id]_vars
    \* and a listing shows every record there is
    /\ [][\A r \in Slots : \A route \in BookListings :
            Answered(r, route)
                => \A i \in 1..Len(books) :
                      Lists(slot'[r].resp.list, books[i])]_vars

\* A listing of two books, one of them with title Y and description D.
C11_Witness ==
    \E r \in Slots :
        /\ Done(r, "GET /admin/books")
        /\ Len(slot[r].resp.list) = 2
        /\ \E j \in 1..2 :
              /\ slot[r].resp.list[j].title = "Y"
              /\ slot[r].resp.list[j].description = "D"

(***************************************************************************)
(* C12 as stated: POST /admin/books/:id/edit with an id that matches no    *)
(* book fails with a NotFound error outcome: it is answered with an error  *)
(* status and does not complete as a successful update does.               *)
(***************************************************************************)
C12_AsStated ==
    [][\A r \in Slots :
          (Answered(r, EditRoute) /\ NoBook(slot[r].id))
              => /\ slot'[r].resp.status >= 400
                 /\ slot'[r].resp # Redirect("/admin/books")]_vars

(***************************************************************************)
(* C12, amended: POST /admin/books/:id/edit with a well-formed id that     *)
(* matches no book completes, unless the operation fails, with the         *)
(* redirect to /admin/books of a successful update; no edit is ever        *)
(* answered with a NotFound outcome: its response is that redirect or      *)
(* 500 'Error updating book'.                                              *)
(***************************************************************************)
C12_EditNoMatchCompletes ==
    /\ [][\A r \in Slots :
            (/\ Answered(r, EditRoute)
             /\ NoBook(slot[r].id)
             /\ slot[r].id # MalformedId
             /\ slot'[r].log = "")
                => slot'[r].resp = Redirect("/admin/books")]_vars
    /\ [](\A r \in Slots :
            Done(r, EditRoute)
                => \/ slot[r].resp = Redirect("/admin/books")
                   \/ slot[r].resp = Send(500, "Error updating book"))

\* An edit of an id whose book was deleted has been answered by the redirect.
C12_Witness ==
    \E r \in Slots :
        /\ Done(r, EditRoute)
        /\ slot[r].resp = Redirect("/admin/books")
        /\ NoBook(slot[r].id)
        /\ slot[r].id # MalformedId /\ slot[r].id < nextBook
        /\ Len(books) >= 1

(***************************************************************************)
(* C13 as stated: POST /admin/books/:id/edit with an id that matches no    *)
(* book is a no-op: the book collection is unchanged, no record is         *)
(* created, no error is signalled, and the response is the same redirect   *)
(* to /admin/books as for a successful update.                             *)
(***************************************************************************)
C13_AsStated ==
    [][\A r \in Slots :
          (Answered(r, EditRoute) /\ NoBook(slot[r].id))
              => /\ books' = books
                 /\ slot'[r].log = ""
                 /\ slot'[r].resp = Redirect("/admin/books")]_vars

(***************************************************************************)
(* C13, amended: POST /admin/books/:id/edit with an id that matches no     *)
(* book leaves the book collection unchanged and creates no record.  When  *)
(* the id is a well-formed ObjectId and the operation does not fail, no    *)
(* error is signalled and the response is the redirect to /admin/books;    *)
(* otherwise the error is logged and the response is 500 'Error updating   *)
(* book', as it always is for an id that is no ObjectId.                   *)
(***************************************************************************)
C13_EditNoMatchNoOp ==
    [][\A r \in Slots :
          (Answered(r, EditRoute) /\ NoBook(slot[r].id))
              => /\ books' = books /\ nextBook' = nextBook
                 /\ \/ /\ slot'[r].log = ""
                       /\ slot'[r].resp = Redirect("/admin/books")
                       /\ slot[r].id # MalformedId
                    \/ /\ slot'[r].log = "error"
                       /\ slot'[r].resp = Send(500, "Error updating book")]_vars

\* An edit of an id never handed out has been answered by the redirect, the
\* collection holding as many books as it can.
C13_Witness ==
    \E r \in Slots :
        /\ Done(r, EditRoute)
        /\ slot[r].resp = Redirect("/admin/books")
        /\ slot[r].id >= nextBook
        /\ Len(books) >= 1

(***************************************************************************)
(* C14 as stated: whenever a persistence operation fails while any route   *)
(* is handling a request (the read-only listings GET /books, GET           *)
(* /admin/books, GET /api/articles and GET /articles included), that       *)
(* request is answered at once with a 500-class response or a redirect;    *)
(* no request is left without a response.                                  *)
(***************************************************************************)
FailureLogs ==
    {"error", "Error fetching articles from MongoDB:",
     "Error creating article:", "Signup error:", "Signin error:"}
C14_AsStated ==
    \A r \in Slots :
        /\ slot[r].pc # "rejected"
        /\ (slot[r].pc = "done" /\ slot[r].log \in FailureLogs)
              => \/ slot[r].resp.status >= 500
                 \/ slot[r].resp.status = 302

(***************************************************************************)
(* C15: for every successful POST /write, the stored article's excerpt is  *)
(* the submitted excerpt when one is given and non-empty, and otherwise    *)
(* the first 120 characters of content followed by '...' (also when        *)
(* content has fewer than 120 characters); tag, author and readTime that   *)
(* are absent or empty are stored as 'Article', 'Anonymous' and            *)
(* '3 min read'.                                                           *)
(***************************************************************************)
FirstChars(t, n) == [i \in 1..(IF Len(t) < n THEN Len(t) ELSE n) |-> t[i]]
Given(v, default) == IF Absent(v) THEN default ELSE v
C15_StoredArticle ==
    [][\A r \in Slots :
          (/\ Answered(r, "POST /write")
           /\ slot'[r].resp = Redirect("/articles"))
              => /\ Len(articles') = Len(articles) + 1
                 /\ LET sent == slot[r].body
                        stored == articles'[Len(articles')]
                    IN  /\ stored.excerpt =
                              IF HasText(sent.excerpt) THEN sent.excerpt
                              ELSE FirstChars(sent.content, 120)
                                       \o <<".", ".", ".">>
                        /\ stored.tag = Given(sent.tag, "Article")
                        /\ stored.author = Given(sent.author, "Anonymous")
                        /\ stored.readTime = Given(sent.readTime, "3 min read")
                        /\ stored.title = sent.title
                        /\ stored.content = sent.content]_vars

\* An article of 121 characters, sent with empty excerpt, tag, author and
\* readTime, is stored with an excerpt of 123 characters and the defaults.
C15_Witness ==
    \E r \in Slots :
        /\ Done(r, "POST /write")
        /\ slot[r].resp = Redirect("/articles")
        /\ Len(slot[r].body.content) = 121
        /\ slot[r].body.tag = ""
        /\ Len(articles) >= 1
        /\ Len(articles[Len(articles)].excerpt) = 123
        /\ articles[Len(articles)].tag = "Article"

(***************************************************************************)
(* C16: the book create, update and delete routes have the same effect on  *)
(* the book collection and the same response whether the request carries   *)
(* a session with a signed-in user, a session without one, or no session   *)
(* at all; no session state ever blocks a book mutation.  What a request   *)
(* does is told by its fields and the collection alone (and by whether the *)
(* database fails), and the successful outcome is open to every request.   *)
(***************************************************************************)
BookMutations == {CreateRoute, EditRoute, DeleteRoute}
ErrorOf(route) ==
    IF route = CreateRoute THEN "Error creating book"
    ELSE IF route = EditRoute THEN "Error updating book"
    ELSE "Error deleting book"
\* The effect of a successful mutation, from the request and the collection.
C16_Effect(route, req) ==
    IF route = CreateRoute
    THEN /\ Len(books') = Len(books) + 1
         /\ SubSeq(books', 1, Len(books)) = books
         /\ books'[Len(books')].title = req.title
         /\ books'[Len(books')].description = req.description
    ELSE IF route = DeleteRoute
    THEN books' = Without(req.id)
    ELSE /\ Len(books') = Len(books)
         /\ \A i \in 1..Len(books) :
               /\ books'[i].id = books[i].id
               /\ books[i].id # req.id => books'[i] = books[i]
               /\ (books[i].id = req.id /\ ~Absent(req.title))
                     => books'[i].title = req.title
C16_Succeeds(r, route) ==
    /\ slot'[r].pc = "done"
    /\ slot'[r].route = route
    /\ slot'[r].resp = Redirect("/admin/books")
C16_SessionIgnored ==
    /\ [][\A r \in Slots : \A route \in BookMutations :
            Answered(r, route)
                => /\ store' = store
                   /\ \/ /\ slot'[r].log = "error"
                         /\ slot'[r].resp = Send(500, ErrorOf(route))
                         /\ books' = books
                      \/ /\ slot'[r].log = ""
                         /\ slot'[r].resp = Redirect("/admin/books")
                         /\ C16_Effect(route, slot[r])]_vars
    /\ [](\A r \in Slots :
            /\ (slot[r].pc = "delete" /\ slot[r].id # MalformedId)
                  => ENABLED (BooksNext /\ C16_Succeeds(r, DeleteRoute))
            /\ (slot[r].pc = "update" /\ slot[r].id # MalformedId)
                  => ENABLED (BooksNext /\ C16_Succeeds(r, EditRoute))
            /\ (/\ slot[r].pc = "create"
                /\ slot[r].route = CreateRoute
                /\ ~Absent(slot[r].title) /\ ~Absent(slot[r].description)
                /\ nextBook <= MaxBooks)
                  => ENABLED (BooksNext /\ C16_Succeeds(r, CreateRoute)))

\* A request without any session has deleted a book while a member is signed
\* in on the browser's session.
C16_Witness ==
    \E r \in Slots :
        /\ Done(r, DeleteRoute)
        /\ slot[r].resp = Redirect("/admin/books")
        /\ slot[r].tok = NoCookie
        /\ store["t1"] # NoUser
        /\ slot[r].id < nextBook /\ NoBook(slot[r].id)

(***************************************************************************)
(* C17: once created, an article record and a user record are never        *)
(* changed or removed by any sequence of requests: the article and user    *)
(* collections only grow, and every field of an existing article or user   *)
(* keeps its stored value.                                                 *)
(***************************************************************************)
Kept(before, after) ==
    /\ Len(after) >= Len(before)
    /\ \A i \in 1..Len(before) : after[i] = before[i]
Flipped(keys, id) ==
    (keys \ {id}) \cup (IF id \in keys THEN {} ELSE {id})
C18_ToggleSubscribe ==
    /\ [][storage' # storage
            => /\ \E i \in 1..Len(feed.list) :
                     storage' = Flipped(storage, feed.list[i].id)
               /\ feed'.list = feed.list
               /\ server' = server]_vars
    /\ [](feed # NotShown
            => \A i \in 1..Len(feed.list) :
                  ENABLED (/\ ArchiveNext
                           /\ storage' = Flipped(storage, feed.list[i].id)
                           /\ Flipped(storage', feed.list[i].id) = storage))

\* Of two cards shown, one is subscribed to and relabelled, the other is not.
C18_Witness ==
    /\ feed # NotShown
    /\ Len(feed.list) = 2
    /\ feed.list[1].id \in storage /\ feed.labels[1] = "Subscribed"
    /\ feed.list[2].id \notin storage /\ feed.labels[2] = "Subscribe"

(***************************************************************************)
(* C19 as stated: after any sequence of book create, update and delete     *)
(* requests, every record in the book collection has a non-empty title and *)
(* a non-empty description; a create or update whose title or description  *)
(* is missing or empty does not leave such a record in the collection.     *)
(***************************************************************************)
NonEmpty(v) == v # "" /\ v # Missing /\ v # "null"
C19_AsStated ==
    \A i \in 1..Len(books) :
        NonEmpty(books[i].title) /\ NonEmpty(books[i].description)

(***************************************************************************)
(* C20 as stated: on the articles page, after any number of search inputs  *)
(* (each of which re-renders the list through renderArticlesPage on the    *)
(* same container), one click on an article's Subscribe button changes     *)
(* that article's subscription state exactly once: from unsubscribed to    *)
(* subscribed or from subscribed to unsubscribed.                          *)
(***************************************************************************)
C20_AsStated ==
    grid # NotShown
        => \A i \in 1..Len(grid.list) :
              ENABLED (/\ PageNext
                       /\ grid'.list = grid.list
                       /\ storage' = Flipped(storage, grid.list[i].id))

(***************************************************************************)
(* C21: in every reachable server state, a session that holds a user holds *)
(* the id, email and name of a user record that exists in the user         *)
(* collection; the session user is set only after the record was created   *)
(* (signup) or found and password-verified (signin), and never before.     *)
(***************************************************************************)
IsUser(identity) ==
    \E i \in 1..Len(users) : IdentityOf(users[i]) = identity
InFlight(r) == slot[r].pc # "idle"
\* Request r puts a user in its session in this step.
SetsSessionUser(r) ==
    /\ InFlight(r) /\ slot'[r].pc # "idle"
    /\ slot'[r].sess # slot[r].sess
    /\ slot'[r].sess # NoUser
C21_SessionUserExists ==
    /\ [](/\ \A t \in Tokens : store[t] # NoUser => IsUser(store[t])
          /\ \A r \in Slots :
                (InFlight(r) /\ slot[r].sess # NoUser) => IsUser(slot[r].sess))
    /\ [][\A r \in Slots :
            SetsSessionUser(r)
                => \/ /\ Answered(r, "POST /signup")
                      /\ Len(users') = Len(users) + 1
                      /\ slot'[r].sess = IdentityOf(users'[Len(users')])
                   \/ /\ Answered(r, "POST /signin")
                      /\ \E i \in 1..Len(users) :
                            /\ Matches(r, i)
                            /\ slot'[r].sess = IdentityOf(users[i])]_vars
    /\ [][\A t \in Tokens :
            (store'[t] # store[t] /\ store'[t] # NoUser)
                => \E r \in Slots :
                      /\ SetsSessionUser(r)
                      /\ slot[r].tok = t
                      /\ slot'[r].sess = store'[t]]_vars

\* The browser's session holds the second user, put there by a signin.
C21_Witness ==
    /\ Len(users) = 2
    /\ store["t1"] = IdentityOf(users[2])
    /\ \E r \in Slots :
          /\ Done(r, "POST /signin")
          /\ slot[r].resp = Redirect("/home")
          /\ slot[r].sess = store["t1"]

\* What localStorage holds of suggestions and reviews.
Stored == <<suggestions, reviews>>
\* The entry the books page stores for a typed text while a user is signed in.
EntryOf(text) == [text |-> Trim(text), author |-> currentUser.email]
\* What the listeners of the container leave of the stored reviews after a
\* click on Post in the i-th card with the given text in its textarea.
Posted(i, text) ==
    ReviewDispatch([lists |-> reviews, text |-> text, notice |-> "none"],
                   shelf.list[i], currentUser, shelfListeners).lists

\* C22: on the books page a click stores nothing when the typed text is empty
\* after trimming or nobody is signed in on the client; every change of the
\* stored suggestions and reviews happens while a user is signed in, and puts
\* one entry with a non-empty text first in one list - the suggestions, or
\* the reviews of one book id - leaving every other list as it was.
C22_StoredWhenSignedIn ==
    /\ [](shelf # NotShown =>
            \A text \in EntryTexts :
                (Trim(text) = <<>> \/ currentUser = Nobody) =>
                    /\ ~ENABLED (SuggestClick(text) /\ Stored' # Stored)
                    /\ \A i \in 1..Len(shelf.list) :
                           Posted(i, text) = reviews)
    /\ [][Stored' # Stored =>
            /\ currentUser # Nobody
            /\ \E text \in EntryTexts :
                   /\ Trim(text) # <<>>
                   /\ \/ /\ suggestions' = <<EntryOf(text)>> \o suggestions
                         /\ reviews' = reviews
                      \/ /\ suggestions' = suggestions
                         /\ \E id \in ShelfIds :
                                /\ reviews'[id] = <<EntryOf(text)>> \o reviews[id]
                                /\ \A other \in ShelfIds \ {id} :
                                       reviews'[other] = reviews[other]]_vars
\* Two reviews of the book without an id are stored, the later one first, and
\* one suggestion; the other book has no review; the visitor has signed out,
\* searched, and a further click on Post has sent them to the sign-in page.
C22_Witness ==
    /\ currentUser = Nobody
    /\ shelfListeners > 1
    /\ notice = "signin"
    /\ Len(suggestions) = 1
    /\ reviews[<<"b", "1">>] = <<>>
    /\ \E id \in ShelfIds \ {<<"b", "1">>} :
           /\ Len(reviews[id]) = 2
           /\ reviews[id][1].text = Zen
           /\ reviews[id][2].text = Diary

====
